---- MODULE Spec2Model ----
(***************************************************************************)
(* Model of Rust/Traits/src/main.rs: two traits with default methods,      *)
(* two unit structs adopting them selectively, six free functions with     *)
(* trait bounds, the generic wrapper Pet<T> with conditionally available   *)
(* methods, and the entry sequence main.                                   *)
(*                                                                         *)
(* Trait bounds and moves are resolved by the compiler.  They are modelled *)
(* as the admission check TypeChecks of a statement against the static     *)
(* environment binds; an admitted statement then runs.                     *)
(* The specifications share these operators:                               *)
(*   Spec       the entry sequence main, statement by statement;           *)
(*   LiveSpec   Spec with the progress of straight-line code;              *)
(*   ClientSpec any bounded sequence of statements over the items of the   *)
(*              file, each either admitted and executed or rejected.       *)
(***************************************************************************)
EXTENDS Naturals, Sequences, FiniteSets, TLC

VARIABLES
    pc,       \* index of the next statement
    stdout,   \* lines written to standard output, in order
    binds,    \* local bindings: state, type, held type, value identity
    calls,    \* invocations made so far, in order
    last,     \* the statement handled by the latest step
    verdict,  \* "ok", or "error" once a statement was rejected
    impls,    \* the impl blocks in scope
    crate,    \* crate name the build gives to type_name's paths
    args,     \* process arguments (never read by the program)
    environ   \* process environment (never read by the program)

vars == <<pc, stdout, binds, calls, last, verdict, impls, crate, args, environ>>

----------------------------------------------------------------------------
(* Bounds and input sets *)

\* Statements a client program may hold.
MaxStmts == 3

\* A type declared by a client of the generic items, with any set of impls.
ClientTypes == {"Other"}

\* Crate names a build may use (no manifest is part of the source).
CrateNames == {"Traits", "main"}

ArgChoices == {<<>>, <<"x">>, <<"x", "y">>}
EnvChoices == {{}, {"RUST_BACKTRACE"}}

----------------------------------------------------------------------------
(* Traits, structs and impl blocks *)

Traits == {"Speak", "Recall"}

\* Default method bodies of the two traits.
SpeakDefault == "Animal sound."
RecallDefault == "I'm coming back."

Default(trait) == IF trait = "Speak" THEN SpeakDefault ELSE RecallDefault

Structs == {"Dog", "Cat"}

\* An impl block: body is <<s>> when the block overrides the trait's method
\* to return s, and <<>> when the block is empty.
Impl(trait, ty, body) == [trait |-> trait, ty |-> ty, body |-> body]

ImplSpeakForDog_NoOverride == Impl("Speak", "Dog", <<>>)

ImplSpeakForDog == Impl("Speak", "Dog", <<"Bark">>)
ImplSpeakForCat == Impl("Speak", "Cat", <<"Meow">>)
ImplRecallForDog == Impl("Recall", "Dog", <<>>)

ProgramImpls_CatRecalls ==
    {ImplSpeakForDog, ImplSpeakForCat, ImplRecallForDog,
     Impl("Recall", "Cat", <<>>)}

ProgramImpls == {ImplSpeakForDog, ImplSpeakForCat, ImplRecallForDog}

\* struct Pet<T>: the wrapper type over T.
Pet(T) == "Pet<" \o T \o ">"

\* Traits a type adopts: those with an impl block for it.
Adopted(ty) == {i.trait : i \in {j \in impls : j.ty = ty}}

Dispatch_AlwaysDefault(trait, ty) == Default(trait)

\* Static dispatch of a trait method on a type: the override when the impl
\* block has one, the trait's default body otherwise.  A call on a type with
\* no impl block does not resolve and has no body to run; no admitted
\* statement makes one.
Dispatch(trait, ty) ==
    LET found == {j \in impls : j.trait = trait /\ j.ty = ty}
    IN  IF found = {} THEN "<unresolved>"
        ELSE LET i == CHOOSE j \in found : TRUE
             IN  IF i.body = <<>> THEN Default(trait) ELSE i.body[1]

speak(ty) == Dispatch("Speak", ty)
recall(ty) == Dispatch("Recall", ty)

\* Pet<T>::call_back and Pet<T>::provoke forward to the held value.
call_back(T) == recall(T)
provoke_Default(T) == SpeakDefault

provoke(T) == speak(T)

\* The trait whose method op is.
TraitOf(op) == IF op = "speak" THEN "Speak" ELSE "Recall"

\* The bound on T of the impl block that defines a Pet method.
MethodBound_Swapped(op) == IF op = "call_back" THEN {"Speak"} ELSE {"Recall"}

MethodBound(op) == IF op = "call_back" THEN {"Recall"} ELSE {"Speak"}

PetMethods == {"call_back", "provoke"}
TraitMethods == {"speak", "recall"}

----------------------------------------------------------------------------
(* Free functions *)

OneArgFns == {"take_to_park", "take_to_park_trait_bound_syntax",
              "take_to_play", "take_to_play_trait_bound_syntax"}
TwoArgFns == {"take_two_to_play_trait_bound_syntax",
              "take_two_to_play_trait_bound_syntax_where"}
Fns == OneArgFns \cup TwoArgFns

\* Trait bounds of each parameter's type, in parameter order.
ParamBounds(fn) ==
    CASE fn = "take_to_park" -> <<{"Recall"}>>
      [] fn = "take_to_park_trait_bound_syntax" -> <<{"Recall"}>>
      [] fn = "take_to_play" -> <<{"Speak", "Recall"}>>
      [] fn = "take_to_play_trait_bound_syntax" -> <<{"Speak", "Recall"}>>
      [] fn = "take_two_to_play_trait_bound_syntax" ->
             <<{"Speak", "Recall"}, {"Speak", "Recall"}>>
      [] fn = "take_two_to_play_trait_bound_syntax_where" ->
             <<{"Speak", "Recall"}, {"Speak", "Recall"}>>

\* name_of!(ident): the identifier's own text.
name_of(ident) == ident

\* type_name::<T>(): the type's path in the crate being built.
type_name(T) == crate \o "::" \o T

take_to_park_TypeName(T) == "Taking a " \o type_name(T) \o " to the park."

\* The line each function prints, given its arguments' types.
take_to_park(T) == "Taking a " \o name_of("animal") \o " to the park."
take_to_park_trait_bound_syntax(T) ==
    "Taking a " \o type_name(T) \o " to the park."
take_to_play(T) == "Taking a " \o name_of("animal") \o " to play."
take_to_play_trait_bound_syntax(T) ==
    "Taking a " \o type_name(T) \o " to play."
take_two_to_play_trait_bound_syntax(T, U) ==
    "Taking a " \o type_name(T) \o " and a " \o type_name(U) \o " to play."
take_two_to_play_trait_bound_syntax_where(T, U) ==
    "Taking a " \o type_name(T) \o " and a " \o type_name(U) \o " to play."

FnLine(fn, tys) ==
    CASE fn = "take_to_park" -> take_to_park(tys[1])
      [] fn = "take_to_park_trait_bound_syntax" ->
             take_to_park_trait_bound_syntax(tys[1])
      [] fn = "take_to_play" -> take_to_play(tys[1])
      [] fn = "take_to_play_trait_bound_syntax" ->
             take_to_play_trait_bound_syntax(tys[1])
      [] fn = "take_two_to_play_trait_bound_syntax" ->
             take_two_to_play_trait_bound_syntax(tys[1], tys[2])
      [] fn = "take_two_to_play_trait_bound_syntax_where" ->
             take_two_to_play_trait_bound_syntax_where(tys[1], tys[2])

----------------------------------------------------------------------------
(* Statements *)

\* let name = ty {};
LetStruct(name, ty) ==
    [k |-> "let", name |-> name, op |-> ty, args |-> <<>>, print |-> FALSE]
\* let name = Pet { animal: src };
LetPet(name, src) ==
    [k |-> "pet", name |-> name, op |-> "Pet", args |-> <<src>>, print |-> FALSE]
\* println!("{}", recv.op());
Println(recv, op) ==
    [k |-> "method", name |-> recv, op |-> op, args |-> <<>>, print |-> TRUE]
\* recv.op();
Discard(recv, op) ==
    [k |-> "method", name |-> recv, op |-> op, args |-> <<>>, print |-> FALSE]
\* fn(&a, ..);
Call(fn, as) ==
    [k |-> "call", name |-> "-", op |-> fn, args |-> as, print |-> FALSE]

NoStmt == [k |-> "none", name |-> "-", op |-> "-", args |-> <<>>, print |-> FALSE]

MainBody_UseAfterMove == <<
    LetStruct("dog", "Dog"),
    LetStruct("dog2", "Dog"),
    LetStruct("cat", "Cat"),
    Println("dog", "speak"),
    Println("dog", "recall"),
    Println("cat", "speak"),
    Call("take_to_park_trait_bound_syntax", <<"dog">>),
    Call("take_to_play", <<"dog">>),
    Call("take_to_play_trait_bound_syntax", <<"dog">>),
    Call("take_two_to_play_trait_bound_syntax_where", <<"dog2", "dog">>),
    LetPet("pet", "dog"),
    Call("take_to_park", <<"dog">>),
    Discard("pet", "call_back"),
    Discard("pet", "provoke"),
    LetPet("pet2", "cat"),
    Discard("pet2", "provoke") >>

MainBody_PrintsWrapper == <<
    LetStruct("dog", "Dog"),
    LetStruct("dog2", "Dog"),
    LetStruct("cat", "Cat"),
    Println("dog", "speak"),
    Println("dog", "recall"),
    Println("cat", "speak"),
    Call("take_to_park", <<"dog">>),
    Call("take_to_park_trait_bound_syntax", <<"dog">>),
    Call("take_to_play", <<"dog">>),
    Call("take_to_play_trait_bound_syntax", <<"dog">>),
    Call("take_two_to_play_trait_bound_syntax_where", <<"dog2", "dog">>),
    LetPet("pet", "dog"),
    Println("pet", "call_back"),
    Println("pet", "provoke"),
    LetPet("pet2", "cat"),
    Println("pet2", "provoke") >>

\* The body of main, in statement order.
MainBody == <<
    LetStruct("dog", "Dog"),
    LetStruct("dog2", "Dog"),
    LetStruct("cat", "Cat"),
    Println("dog", "speak"),
    Println("dog", "recall"),
    Println("cat", "speak"),
    Call("take_to_park", <<"dog">>),
    Call("take_to_park_trait_bound_syntax", <<"dog">>),
    Call("take_to_play", <<"dog">>),
    Call("take_to_play_trait_bound_syntax", <<"dog">>),
    Call("take_two_to_play_trait_bound_syntax_where", <<"dog2", "dog">>),
    LetPet("pet", "dog"),
    Discard("pet", "call_back"),
    Discard("pet", "provoke"),
    LetPet("pet2", "cat"),
    Discard("pet2", "provoke") >>

Done == Len(MainBody) + 1

StructNames == {"dog", "dog2", "cat", "other"}
PetNames == {"pet", "pet2"}
Names == StructNames \cup PetNames

Unbound == [st |-> "unbound", ty |-> "-", inner |-> "-", val |-> "-"]

Range(s) == {s[i] : i \in DOMAIN s}

\* The bindings a statement reads.
Uses(s) == IF s.k = "method" THEN {s.name} ELSE Range(s.args)

IsPet(n) == binds[n].inner # "-"

----------------------------------------------------------------------------
(* Admission of a statement: trait bounds and moves *)

\* Every binding the statement reads is bound and not moved out of.
Usable(s) == \A n \in Uses(s) : binds[n].st = "live"

\* recv.op() resolves: a Pet method needs the bound of its impl block on the
\* held type; a trait method needs the receiver's type to adopt the trait.
MethodResolves(n, op) ==
    IF IsPet(n)
    THEN op \in PetMethods /\ MethodBound(op) \subseteq Adopted(binds[n].inner)
    ELSE op \in TraitMethods /\ TraitOf(op) \in Adopted(binds[n].ty)

CallResolves_SameType(fn, as) ==
    /\ Len(as) = Len(ParamBounds(fn))
    /\ \A i \in DOMAIN as : ParamBounds(fn)[i] \subseteq Adopted(binds[as[i]].ty)
    /\ \A i, j \in DOMAIN as : binds[as[i]].ty = binds[as[j]].ty

\* fn(&a, ..) resolves: each argument's type satisfies its parameter's bounds.
CallResolves(fn, as) ==
    /\ Len(as) = Len(ParamBounds(fn))
    /\ \A i \in DOMAIN as : ParamBounds(fn)[i] \subseteq Adopted(binds[as[i]].ty)

TypeChecks(s) ==
    /\ Usable(s)
    /\ s.k = "method" => MethodResolves(s.name, s.op)
    /\ s.k = "call" => CallResolves(s.op, s.args)

----------------------------------------------------------------------------
(* Execution of an admitted statement *)

Event(op, caller, via, tys, vals, ret) ==
    [op |-> op, caller |-> caller, via |-> via, tys |-> tys, vals |-> vals,
     ret |-> ret]

Advance(s) ==
    /\ pc' = pc + 1
    /\ last' = s
    /\ verdict' = "ok"
    /\ UNCHANGED <<impls, crate, args, environ>>

\* let name = ty {};
LetStmt(s) ==
    /\ s.k = "let"
    /\ binds' = [binds EXCEPT ![s.name] =
                    [st |-> "live", ty |-> s.op, inner |-> "-", val |-> s.name]]
    /\ UNCHANGED <<stdout, calls>>
    /\ Advance(s)

\* let name = Pet { animal: src };  the value moves out of src.
PetStmt(s) ==
    /\ s.k = "pet"
    /\ LET src == s.args[1]
           b == binds[src]
       IN  /\ binds' = [binds EXCEPT
                  ![src] = [b EXCEPT !.st = "moved"],
                  ![s.name] = [st |-> "live", ty |-> Pet(b.ty),
                               inner |-> b.ty, val |-> b.val]]
           /\ calls' = Append(calls,
                  Event("Pet", "main", <<src>>, <<b.ty>>, <<b.val>>, "()"))
    /\ UNCHANGED stdout
    /\ Advance(s)

\* The value a method call returns.
MethodRet(n, op) ==
    CASE op = "call_back" -> call_back(binds[n].inner)
      [] op = "provoke" -> provoke(binds[n].inner)
      [] op = "speak" -> speak(binds[n].ty)
      [] op = "recall" -> recall(binds[n].ty)

\* The invocations a method call makes: itself and, for a Pet method, the
\* trait method of the held value it forwards to.
MethodEvents(n, op) ==
    LET b == binds[n]
        own == Event(op, "main", <<n>>, <<b.ty>>, <<b.val>>, MethodRet(n, op))
    IN  CASE op = "call_back" ->
               <<own, Event("recall", op, <<n>>, <<b.inner>>, <<b.val>>,
                            recall(b.inner))>>
          [] op = "provoke" ->
               <<own, Event("speak", op, <<n>>, <<b.inner>>, <<b.val>>,
                            speak(b.inner))>>
          [] OTHER -> <<own>>

\* recv.op();  or  println!("{}", recv.op());
MethodStmt(s) ==
    /\ s.k = "method"
    /\ calls' = calls \o MethodEvents(s.name, s.op)
    /\ stdout' = IF s.print THEN Append(stdout, MethodRet(s.name, s.op))
                 ELSE stdout
    /\ UNCHANGED binds
    /\ Advance(s)

CallStmt_ByValue(s) ==
    /\ s.k = "call"
    /\ LET tys == [i \in DOMAIN s.args |-> binds[s.args[i]].ty]
           vals == [i \in DOMAIN s.args |-> binds[s.args[i]].val]
       IN  /\ stdout' = Append(stdout, FnLine(s.op, tys))
           /\ calls' = Append(calls,
                  Event(s.op, "main", s.args, tys, vals, "()"))
    /\ binds' = [n \in Names |->
                    IF n \in Range(s.args)
                    THEN [binds[n] EXCEPT !.st = "moved"] ELSE binds[n]]
    /\ Advance(s)

\* fn(&a, ..);  the body is one println! and uses the arguments no further.
CallStmt(s) ==
    /\ s.k = "call"
    /\ LET tys == [i \in DOMAIN s.args |-> binds[s.args[i]].ty]
           vals == [i \in DOMAIN s.args |-> binds[s.args[i]].val]
       IN  /\ stdout' = Append(stdout, FnLine(s.op, tys))
           /\ calls' = Append(calls,
                  Event(s.op, "main", s.args, tys, vals, "()"))
    /\ UNCHANGED binds
    /\ Advance(s)

\* A statement that does not type-check: the build fails, so no statement of
\* the program runs and nothing is written.
Reject(s) ==
    /\ ~TypeChecks(s)
    /\ verdict' = "error"
    /\ last' = s
    /\ stdout' = <<>>
    /\ calls' = <<>>
    /\ UNCHANGED <<pc, binds, impls, crate, args, environ>>

----------------------------------------------------------------------------
(* The entry sequence *)

NoBinds == [n \in Names |-> Unbound]

Init ==
    /\ pc = 1
    /\ stdout = <<>>
    /\ binds = NoBinds
    /\ calls = <<>>
    /\ last = NoStmt
    /\ verdict = "ok"
    /\ impls = ProgramImpls
    /\ crate \in CrateNames
    /\ args \in ArgChoices
    /\ environ \in EnvChoices

\* fn main(): the next statement of the body runs, by kind of statement.
main(s) ==
    /\ pc \in DOMAIN MainBody
    /\ s = MainBody[pc]
    /\ TypeChecks(s)

Next ==
    \E s \in Range(MainBody) :
        \/ main(s) /\ LetStmt(s)
        \/ main(s) /\ MethodStmt(s)
        \/ main(s) /\ CallStmt(s)
        \/ main(s) /\ PetStmt(s)

Spec == Init /\ [][Next]_vars

\* main is straight-line code on one thread: it keeps running to its end.
LiveSpec == Spec /\ WF_vars(Next)

----------------------------------------------------------------------------
(* Client programs over the items of the file *)

\* The struct each client binding is initialised with.
StructOf(n) ==
    CASE n = "dog" -> "Dog" [] n = "dog2" -> "Dog" [] n = "cat" -> "Cat"
      [] n = "other" -> "Other"

\* Impl blocks a client may write for its own types (empty bodies).
ClientImpls == {Impl(t, c, <<>>) : t \in Traits, c \in ClientTypes}

Bound == {n \in Names : binds[n].st # "unbound"}

\* Statements a client may write next: bindings introduce fresh names, and
\* reads name bindings introduced before (moved out of or not).
Stmts ==
    {LetStruct(n, StructOf(n)) : n \in StructNames \ Bound}
    \cup {LetPet(p, src) : p \in PetNames \ Bound, src \in Bound}
    \cup {Println(n, op) : n \in Bound, op \in TraitMethods \cup PetMethods}
    \cup {Discard(n, op) : n \in Bound, op \in TraitMethods \cup PetMethods}
    \cup {Call(fn, <<a>>) : fn \in OneArgFns, a \in Bound}
    \cup {Call(fn, <<a, b>>) : fn \in TwoArgFns, a \in Bound, b \in Bound}

ClientInit ==
    /\ pc = 1
    /\ stdout = <<>>
    /\ binds = NoBinds
    /\ calls = <<>>
    /\ last = NoStmt
    /\ verdict = "ok"
    /\ \E extra \in SUBSET ClientImpls : impls = ProgramImpls \cup extra
    /\ crate \in CrateNames
    /\ args = <<>>
    /\ environ = {}

\* The client program is within its bound, has built so far, and s builds.
Admit(s) ==
    /\ pc <= MaxStmts
    /\ verdict = "ok"
    /\ TypeChecks(s)

ClientNext ==
    \/ \E s \in Stmts : Admit(s) /\ LetStmt(s)
    \/ \E s \in Stmts : Admit(s) /\ MethodStmt(s)
    \/ \E s \in Stmts : Admit(s) /\ CallStmt(s)
    \/ \E s \in Stmts : Admit(s) /\ PetStmt(s)
    \/ \E s \in Stmts : pc <= MaxStmts /\ verdict = "ok" /\ Reject(s)

ClientSpec == ClientInit /\ [][ClientNext]_vars

----------------------------------------------------------------------------
(* Properties of the entry sequence (Spec, LiveSpec) *)

IsPrefix(s, u) == Len(s) <= Len(u) /\ SubSeq(u, 1, Len(s)) = s

RECURSIVE IsSubseq(_, _)
\* s occurs in u as lines of their own, in order.
IsSubseq(s, u) ==
    IF s = <<>> THEN TRUE
    ELSE IF u = <<>> THEN FALSE
    ELSE IF Head(s) = Head(u) THEN IsSubseq(Tail(s), Tail(u))
    ELSE IsSubseq(s, Tail(u))

IsDirect(e) == e.caller = "main" /\ e.op \in TraitMethods
IsWrapper(e) == e.caller = "main" /\ e.op \in PetMethods
IsFnCall(e) == e.op \in Fns

\* The strings returned by the invocations selected by Test, in order.
Rets(es, Test(_)) ==
    LET sel == SelectSeq(es, Test)
    IN  [i \in DOMAIN sel |-> sel[i].ret]

IsResult(e) == IsDirect(e) \/ IsWrapper(e)

\* C1: every speak on a Dog returns "Bark" (the override) and every recall
\* on a Dog returns the Recall default "I'm coming back."; in main they are
\* the first and the second line written to stdout.
C1_DogSpeaksAndRecalls ==
    /\ \A i \in DOMAIN calls :
          calls[i].tys = <<"Dog">> =>
              /\ calls[i].op = "speak" => calls[i].ret = "Bark"
              /\ calls[i].op = "recall" => calls[i].ret = "I'm coming back."
    /\ Len(stdout) >= 1 => stdout[1] = "Bark"
    /\ Len(stdout) >= 2 => stdout[2] = "I'm coming back."
    /\ pc > 5 => Len(stdout) >= 2

C1_Witness ==
    /\ pc = Done
    /\ Len(stdout) >= 2
    /\ \E i, j \in DOMAIN calls :
          /\ calls[i].op = "speak" /\ calls[i].tys = <<"Dog">>
          /\ calls[j].op = "recall" /\ calls[j].tys = <<"Dog">>

\* C4: a value moved into a Pet is held by the wrapper alone: no statement
\* of main names a binding that was moved out of, every use of dog and of cat
\* precedes the construction of its Pet, and after it the value is reached
\* through the wrapper only.
C4_MoveIsExclusive ==
    /\ pc \in DOMAIN MainBody =>
          \A n \in Uses(MainBody[pc]) : binds[n].st # "moved"
    /\ \A i, j \in DOMAIN calls :
          (i < j /\ calls[i].op = "Pet") =>
              /\ calls[i].via[1] \notin Range(calls[j].via)
              /\ calls[i].vals[1] \in Range(calls[j].vals) =>
                    /\ Len(calls[j].via) = 1
                    /\ calls[j].via[1] \in PetNames
    /\ \A n, m \in Names :
          (/\ binds[n].st = "live" /\ binds[m].st = "live"
           /\ binds[n].val = binds[m].val) => n = m
    /\ \A n \in {"dog", "cat"} :
          binds[n].st = "moved" =>
              \E p \in PetNames : binds[p].st = "live" /\ binds[p].val = n

C4_Witness ==
    /\ pc = Done
    /\ binds["dog"].st = "moved"
    /\ binds["cat"].st = "moved"
    /\ \E i, j \in DOMAIN calls :
          /\ i < j
          /\ calls[i].op = "Pet" /\ calls[i].via = <<"dog">>
          /\ calls[j].op = "recall" /\ calls[j].vals = <<"dog">>
          /\ calls[j].via = <<"pet">>

\* The eight lines of a run; the type name of Dog is the build's.
ExpectedStdout ==
    LET dogName == crate \o "::Dog"
    IN  << "Bark",
           "I'm coming back.",
           "Meow",
           "Taking a animal to the park.",
           "Taking a " \o dogName \o " to the park.",
           "Taking a animal to play.",
           "Taking a " \o dogName \o " to play.",
           "Taking a " \o dogName \o " and a " \o dogName \o " to play." >>

\* C6: whatever the arguments and the environment, a run writes exactly the
\* eight expected lines to stdout, in order and nothing else, and then
\* terminates.
C6_FixedOutput ==
    /\ [](IsPrefix(stdout, ExpectedStdout))
    /\ <>[](pc = Done /\ stdout = ExpectedStdout)

C6_Witness ==
    /\ pc = Done
    /\ Len(stdout) = 8
    /\ args # <<>>
    /\ environ # {}

\* C8 as stated: each string returned to main by a capability operation or
\* a wrapper operation is on stdout as a line of its own, in invocation
\* order.
C8_EveryResultPrinted ==
    pc = Done => IsSubseq(Rets(calls, IsResult), stdout)

\* C8 amended: the results of the direct capability calls are the first
\* lines of stdout, in invocation order; the wrapper operations' results are
\* discarded: each line of stdout is a direct call's result or the one line
\* of a free function call.
C8_DirectResultsPrinted ==
    /\ IsPrefix(Rets(calls, IsDirect), stdout)
    /\ Len(stdout) = Len(Rets(calls, IsDirect)) + Len(SelectSeq(calls, IsFnCall))
    /\ pc = Done =>
          /\ Rets(calls, IsDirect) = <<"Bark", "I'm coming back.", "Meow">>
          /\ Rets(calls, IsWrapper) = <<"I'm coming back.", "Bark", "Meow">>

C8_Witness ==
    /\ pc = Done
    /\ Len(Rets(calls, IsWrapper)) = 3
    /\ Len(Rets(calls, IsDirect)) = 3
    /\ Len(stdout) = 8

\* C10: no run produces the Speak default "Animal sound.": every speak and
\* every provoke returns "Bark" or "Meow", and every recall and call_back
\* returns the Recall default "I'm coming back.".
C10_DefaultsUsed ==
    /\ \A i \in DOMAIN calls :
          /\ calls[i].ret # "Animal sound."
          /\ calls[i].op \in {"speak", "provoke"} =>
                calls[i].ret \in {"Bark", "Meow"}
          /\ calls[i].op \in {"recall", "call_back"} =>
                calls[i].ret = "I'm coming back."
    /\ \A i \in DOMAIN stdout : stdout[i] # "Animal sound."

C10_Witness ==
    /\ \E i \in DOMAIN calls : calls[i].op = "provoke" /\ calls[i].ret = "Meow"
    /\ \E i \in DOMAIN calls : calls[i].op = "speak" /\ calls[i].ret = "Bark"
    /\ \E i \in DOMAIN calls : calls[i].op = "call_back"

----------------------------------------------------------------------------
(* Properties of the items under any client (ClientSpec) *)

Built == verdict = "ok"
Rejected == verdict = "error"

Both == {"Speak", "Recall"}

\* C2: every speak on a Cat returns "Meow", and recall is never invoked on a
\* Cat: not directly, not by passing a Cat to a free function (each requires
\* Recall), not through call_back of a Pet<Cat>; a statement that would do
\* so is rejected.
C2_CatNeverRecalls ==
    /\ \A i \in DOMAIN calls :
          /\ (calls[i].op = "speak" /\ calls[i].tys = <<"Cat">>) =>
                calls[i].ret = "Meow"
          /\ calls[i].op = "recall" => calls[i].tys # <<"Cat">>
          /\ calls[i].op = "call_back" => calls[i].tys # <<Pet("Cat")>>
          /\ calls[i].op \in Fns => "Cat" \notin Range(calls[i].tys)
    /\ (last.k = "method" /\ last.op = "recall" /\ binds[last.name].ty = "Cat")
          => Rejected
    /\ (last.k = "method" /\ last.op = "call_back"
           /\ binds[last.name].inner = "Cat") => Rejected
    /\ (last.k = "call" /\ \E a \in Range(last.args) : binds[a].ty = "Cat")
          => Rejected

C2_Witness ==
    /\ Rejected
    /\ last = Println("cat", "recall")
    /\ binds["cat"].st = "live"
    /\ binds["cat"].ty = "Cat"

\* C3: on a live Pet<T>, call_back is available iff T adopts Recall and
\* provoke is available iff T adopts Speak, each independently of the other:
\* Pet<Dog> has both, Pet<Cat> has provoke only.
C3_PetMethodsByCapability ==
    (/\ last.k = "method" /\ last.op \in PetMethods
     /\ binds[last.name].st = "live" /\ IsPet(last.name)) =>
        LET T == binds[last.name].inner
            has == {i.trait : i \in {j \in impls : j.ty = T}}
        IN  /\ last.op = "call_back" => (Built <=> "Recall" \in has)
            /\ last.op = "provoke" => (Built <=> "Speak" \in has)
            /\ T = "Dog" => Built
            /\ T = "Cat" => (Built <=> last.op = "provoke")

C3_Witness ==
    /\ Rejected
    /\ last = Discard("pet", "call_back")
    /\ binds["pet"].st = "live"
    /\ binds["pet"].inner = "Cat"

\* C5: a two-parameter function accepts a pair of live arguments iff each
\* argument's type adopts both Speak and Recall, the two types being free
\* to differ; a pair with a Cat is rejected.
C5_TwoIndependentParameters ==
    (/\ last.k = "call" /\ last.op \in TwoArgFns
     /\ \A a \in Range(last.args) : binds[a].st = "live") =>
        LET T == binds[last.args[1]].ty
            U == binds[last.args[2]].ty
            has(ty) == {i.trait : i \in {j \in impls : j.ty = ty}}
        IN  /\ Built <=> (Both \subseteq has(T) /\ Both \subseteq has(U))
            /\ (T = "Dog" /\ U = "Dog") => Built
            /\ (T = "Cat" \/ U = "Cat") => Rejected

C5_Witness ==
    /\ Built
    /\ last.k = "call"
    /\ last.op \in TwoArgFns
    /\ binds[last.args[1]].ty # binds[last.args[2]].ty

\* The step just taken ran a method call on a Pet.
PetMethodStep ==
    pc' = pc + 1 /\ last'.k = "method" /\ last'.op \in PetMethods

\* C7: call_back returns what recall returns on the held value and provoke
\* what speak returns on it (Pet<Dog>: "I'm coming back." and "Bark",
\* Pet<Cat>.provoke: "Meow"); the call itself writes nothing to stdout (a
\* println! of it adds the returned string and nothing else) and changes no
\* binding.
C7_Forwarding ==
    \A i \in DOMAIN calls :
        calls[i].op \in PetMethods =>
            /\ i + 1 \in DOMAIN calls
            /\ calls[i + 1].caller = calls[i].op
            /\ calls[i + 1].op =
                  (IF calls[i].op = "call_back" THEN "recall" ELSE "speak")
            /\ calls[i + 1].vals = calls[i].vals
            /\ calls[i + 1].ret = calls[i].ret
            /\ calls[i].tys = <<Pet("Dog")>> =>
                  calls[i].ret = (IF calls[i].op = "call_back"
                                  THEN "I'm coming back." ELSE "Bark")
            /\ calls[i].tys = <<Pet("Cat")>> => calls[i].ret = "Meow"

\* C7 (whole claim): the forwarding above holds in every state, and a step
\* that runs a Pet method changes no binding and writes nothing of its own.
C7_WrapperMethodsForward ==
    /\ []C7_Forwarding
    /\ [][PetMethodStep =>
            /\ binds' = binds
            /\ Len(calls') = Len(calls) + 2
            /\ stdout' = IF last'.print
                         THEN Append(stdout, calls'[Len(calls) + 1].ret)
                         ELSE stdout]_vars

C7_Witness ==
    /\ Built
    /\ last = Discard("pet", "provoke")
    /\ binds["pet"].inner = "Dog"
    /\ calls[Len(calls)].ret = "Bark"

\* The line a free function prints for arguments of the given types.
C9_Line(fn, tys) ==
    LET name(i) == crate \o "::" \o tys[i]
    IN  CASE fn = "take_to_park" -> "Taking a animal to the park."
          [] fn = "take_to_park_trait_bound_syntax" ->
                 "Taking a " \o name(1) \o " to the park."
          [] fn = "take_to_play" -> "Taking a animal to play."
          [] fn = "take_to_play_trait_bound_syntax" ->
                 "Taking a " \o name(1) \o " to play."
          [] fn \in TwoArgFns ->
                 "Taking a " \o name(1) \o " and a " \o name(2) \o " to play."

\* C9: a call of any of the six free functions writes exactly one line,
\* fixed by the function and the argument types alone, invokes neither speak
\* nor recall, and leaves every argument bound, unchanged and usable.
C9_FreeFunctionsOnlyPrint ==
    [][(pc' = pc + 1 /\ last'.k = "call") =>
          LET tys == [i \in DOMAIN last'.args |-> binds[last'.args[i]].ty]
          IN  /\ last'.op \in Fns
              /\ stdout' = Append(stdout, C9_Line(last'.op, tys))
              /\ binds' = binds
              /\ \A a \in Range(last'.args) : binds'[a].st = "live"
              /\ Len(calls') = Len(calls) + 1
              /\ SubSeq(calls', 1, Len(calls)) = calls
              /\ calls'[Len(calls')].op = last'.op]_vars

C9_Witness ==
    /\ Built
    /\ last = Call("take_two_to_play_trait_bound_syntax", <<"dog", "dog2">>)
    /\ Len(stdout) = 1
    /\ binds["dog"].st = "live"
    /\ binds["dog2"].st = "live"

====
